---- MODULE Spec2Model ----
(***************************************************************************)
(* Model of task1.py: the address book (Field, Name, Phone, Birthday,      *)
(* Record, AddressBook), the command handlers and the command loop.        *)
(*                                                                         *)
(* A text (Python str) is a sequence of chunks; a chunk is a TLA+ string   *)
(* holding one character, or several characters of a literal that no       *)
(* operation of the program looks into.  Concatenation of texts is \o.     *)
(***************************************************************************)
EXTENDS Integers, Sequences, FiniteSets, TLC

VARIABLES
    book,        \* AddressBook.contacts: the entries in insertion order
    pc,          \* position of the running specification
    user_input,  \* the line last read by input() in main
    command,     \* the first word of that line
    args,        \* the other words of that line
    printed,     \* the text last handed to print() in main
    today,       \* the value datetime.now() gives to the query under study
    upcoming,    \* the list get_upcoming_birthdays returned last
    text,        \* the argument of the constructor under study
    made,        \* the outcome of that constructor
    lastAdded,   \* per name, the record last passed to add_record
    found,       \* the name last looked up and the value find returned
    file         \* the content of addressbook.pkl

vars == <<book, pc, user_input, command, args, printed, today, upcoming, text, made,
          lastAdded, found, file>>

None == [none |-> TRUE]

\* ---------------------------------------------------------------- texts
Digits == <<"0", "1", "2", "3", "4", "5", "6", "7", "8", "9">>

IsDigit(c) == \E i \in 1..Len(Digits) : Digits[i] = c

DigitVal(c) == (CHOOSE i \in 1..Len(Digits) : Digits[i] = c) - 1

DigitChar(n) == Digits[n + 1]

Whitespace == {" ", "\t", "\n"}

\* the outcome of a call: a returned value or a raised exception
Return(v) == [exc |-> "none", value |-> v, msg |-> <<>>]

Raise(kind, m) == [exc |-> kind, value |-> None, msg |-> m]

\* ---------------------------------------------------------------- Name
Name(name) ==
    IF name = <<>>
    THEN Raise("ValueError", <<"Name must be a non-empty string">>)
    ELSE Return(name)

\* ---------------------------------------------------------------- Phone
PhonePrefix == <<"+", "3", "8", "0">>

PhoneDigits == 9

\* re.match(r'^\+380\d{9}$', phone): '$' matches at the end of the text and
\* also just before a newline that is the last character of the text
validate_phone(phone) ==
    LET n == Len(PhonePrefix) + PhoneDigits IN
    /\ Len(phone) >= n
    /\ SubSeq(phone, 1, Len(PhonePrefix)) = PhonePrefix
    /\ \A i \in (Len(PhonePrefix) + 1)..n : IsDigit(phone[i])
    /\ \/ Len(phone) = n
       \/ Len(phone) = n + 1 /\ phone[n + 1] = "\n"

InvalidPhoneMsg == <<"Invalid phone number format. Use +380XXXXXXXXX">>

Phone(phone) ==
    IF ~validate_phone(phone)
    THEN Raise("ValueError", InvalidPhoneMsg)
    ELSE Return(phone)

\* ---------------------------------------------------------------- dates
\* a datetime is its calendar date; the time of day plays no part
Date(y, m, d) == [year |-> y, month |-> m, day |-> d]

IsLeap(y) == (y % 4 = 0) /\ ((y % 100 # 0) \/ (y % 400 = 0))

DaysInMonth(y, m) ==
    IF m = 2 THEN (IF IsLeap(y) THEN 29 ELSE 28)
    ELSE IF m \in {4, 6, 9, 11} THEN 30 ELSE 31

MinYear == 1

NextDay(dt) ==
    IF dt.day < DaysInMonth(dt.year, dt.month)
    THEN Date(dt.year, dt.month, dt.day + 1)
    ELSE IF dt.month < 12
         THEN Date(dt.year, dt.month + 1, 1)
         ELSE Date(dt.year + 1, 1, 1)

RECURSIVE AddDays(_, _)
\* datetime + timedelta(days=n)
AddDays(dt, n) == IF n = 0 THEN dt ELSE AddDays(NextDay(dt), n - 1)

\* ---------------------------------------------------------------- Birthday
\* the regular expressions _strptime builds for %d, %m and %Y
MatchesDay(s) ==
    \/ Len(s) = 2 /\ s[1] = "3" /\ s[2] \in {"0", "1"}
    \/ Len(s) = 2 /\ s[1] \in {"1", "2"} /\ IsDigit(s[2])
    \/ Len(s) = 2 /\ s[1] = "0" /\ IsDigit(s[2]) /\ s[2] # "0"
    \/ Len(s) = 1 /\ IsDigit(s[1]) /\ s[1] # "0"
    \/ Len(s) = 2 /\ s[1] = " " /\ IsDigit(s[2]) /\ s[2] # "0"

MatchesMonth(s) ==
    \/ Len(s) = 2 /\ s[1] = "1" /\ s[2] \in {"0", "1", "2"}
    \/ Len(s) = 2 /\ s[1] = "0" /\ IsDigit(s[2]) /\ s[2] # "0"
    \/ Len(s) = 1 /\ IsDigit(s[1]) /\ s[1] # "0"

MatchesYear(s) == Len(s) = 4 /\ \A i \in 1..4 : IsDigit(s[i])

RECURSIVE ToInt(_)
\* int() of a run of digits; a leading blank is skipped
ToInt(s) ==
    IF s = <<>> THEN 0
    ELSE IF s[Len(s)] = " " THEN 0
    ELSE ToInt(SubSeq(s, 1, Len(s) - 1)) * 10 + DigitVal(s[Len(s)])

\* the ways value splits as <day>.<month>.<year> with nothing left over;
\* a pair <<a, b>> gives the lengths of the day and of the month
StrptimeSplits(value) ==
    { ab \in (1..2) \X (1..2) :
        /\ Len(value) = ab[1] + ab[2] + 6
        /\ MatchesDay(SubSeq(value, 1, ab[1]))
        /\ value[ab[1] + 1] = "."
        /\ MatchesMonth(SubSeq(value, ab[1] + 2, ab[1] + ab[2] + 1))
        /\ value[ab[1] + ab[2] + 2] = "."
        /\ MatchesYear(SubSeq(value, ab[1] + ab[2] + 3, Len(value))) }

\* datetime.strptime(value, '%d.%m.%Y')
strptime(value) ==
    IF StrptimeSplits(value) = {}
    THEN Raise("ValueError", <<"time data does not match format">>)
    ELSE LET ab == CHOOSE x \in StrptimeSplits(value) : TRUE
             d  == ToInt(SubSeq(value, 1, ab[1]))
             m  == ToInt(SubSeq(value, ab[1] + 2, ab[1] + ab[2] + 1))
             y  == ToInt(SubSeq(value, ab[1] + ab[2] + 3, Len(value)))
         IN  IF y < MinYear \/ d > DaysInMonth(y, m)
             THEN Raise("ValueError", <<"date out of range">>)
             ELSE Return(Date(y, m, d))

InvalidDateMsg == <<"Invalid date format. Use DD.MM.YYYY">>

Birthday(value) ==
    IF strptime(value).exc = "ValueError"
    THEN Raise("ValueError", InvalidDateMsg)
    ELSE Return(strptime(value).value)

\* birthday.strftime('%d.%m.%Y')
Pad2(n) == <<DigitChar(n \div 10), DigitChar(n % 10)>>

RECURSIVE Decimal(_)
Decimal(n) ==
    IF n < 10 THEN <<DigitChar(n)>>
    ELSE Decimal(n \div 10) \o <<DigitChar(n % 10)>>

strftime(dt) == Pad2(dt.day) \o <<".">> \o Pad2(dt.month) \o <<".">> \o Decimal(dt.year)

\* ---------------------------------------------------------------- Record
Record(name) ==
    IF Name(name).exc # "none"
    THEN Name(name)
    ELSE Return([name |-> Name(name).value, phones |-> <<>>, birthday |-> None])

\* add_phone putting the new phone in front
add_phone_front(record, phone) ==
    IF Phone(phone).exc # "none"
    THEN Phone(phone)
    ELSE Return([record EXCEPT !.phones = <<Phone(phone).value>> \o @])

\* Record.add_phone: the record after the call, or the exception of Phone
add_phone(record, phone) ==
    IF Phone(phone).exc # "none"
    THEN Phone(phone)
    ELSE Return([record EXCEPT !.phones = Append(@, Phone(phone).value)])

\* Record.add_birthday
Record_add_birthday(record, birthday) ==
    IF Birthday(birthday).exc # "none"
    THEN Birthday(birthday)
    ELSE Return([record EXCEPT !.birthday = Birthday(birthday).value])

get_birthday(record) == IF record.birthday # None THEN record.birthday ELSE None

\* ---------------------------------------------------------------- AddressBook
\* contacts is a dict: its entries <<key, record>> in insertion order
AddressBook == <<>>

Keys(contacts) == { contacts[i].key : i \in 1..Len(contacts) }

IndexOf(contacts, key) ==
    CHOOSE i \in 1..Len(contacts) :
        /\ contacts[i].key = key
        /\ \A j \in 1..(i - 1) : contacts[j].key # key

\* an assignment that always makes a new entry
SetItem_append(contacts, key, record) ==
    Append(contacts, [key |-> key, record |-> record])

\* contacts[key] = record: an existing key keeps its place
SetItem(contacts, key, record) ==
    IF key \in Keys(contacts)
    THEN [contacts EXCEPT ![IndexOf(contacts, key)].record = record]
    ELSE Append(contacts, [key |-> key, record |-> record])

add_record(contacts, record) == SetItem(contacts, record.name, record)

find(contacts, name) ==
    IF name \in Keys(contacts)
    THEN contacts[IndexOf(contacts, name)].record
    ELSE None

WindowDays == 7

\* the rule with today itself left out
IsUpcoming_after(birthday, now, next_week) ==
    \/ birthday.month = now.month /\ birthday.day > now.day
    \/ birthday.month = next_week.month /\ birthday.day <= next_week.day

\* the rule with the last day of the week left out
IsUpcoming_short(birthday, now, next_week) ==
    \/ birthday.month = now.month /\ birthday.day >= now.day
    \/ birthday.month = next_week.month /\ birthday.day < next_week.day

\* the condition of lines 70-71
IsUpcoming(birthday, now, next_week) ==
    \/ birthday.month = now.month /\ birthday.day >= now.day
    \/ birthday.month = next_week.month /\ birthday.day <= next_week.day

RECURSIVE UpcomingLoop(_, _, _, _)
\* the for loop of get_upcoming_birthdays from entry i on, acc collected so far
UpcomingLoop(contacts, i, now, acc) ==
    IF i > Len(contacts) THEN acc
    ELSE LET record == contacts[i].record IN
         IF record.birthday # None
            /\ IsUpcoming(get_birthday(record), now, AddDays(now, WindowDays))
         THEN UpcomingLoop(contacts, i + 1, now, Append(acc, record.name))
         ELSE UpcomingLoop(contacts, i + 1, now, acc)

get_upcoming_birthdays(contacts, now) == UpcomingLoop(contacts, 1, now, <<>>)

\* the record object held under key changes in place
InPlace(contacts, key, record) ==
    [contacts EXCEPT ![IndexOf(contacts, key)].record = record]

\* ---------------------------------------------------------------- handlers
\* the outcome of a handler body: the contacts as the call leaves them, and
\* the returned text or the raised exception
Done(contacts, v) == [contacts |-> contacts, exc |-> "none", value |-> v, msg |-> <<>>]

Fail(contacts, kind, m) == [contacts |-> contacts, exc |-> kind, value |-> <<>>, msg |-> m]

\* the wrapper of input_error: an exception becomes the returned text
input_error(res) ==
    [contacts |-> res.contacts,
     value |-> IF res.exc = "none" THEN res.value
               ELSE IF res.exc = "ValueError" THEN res.msg
               ELSE <<"An error occurred: ">> \o res.msg]

RECURSIVE Join(_, _)
\* sep.join(texts)
Join(texts, sep) ==
    IF texts = <<>> THEN <<>>
    ELSE IF Len(texts) = 1 THEN texts[1]
    ELSE texts[1] \o sep \o Join(Tail(texts), sep)

TooManyValues(n) == <<"too many values to unpack (expected ", DigitChar(n), ")">>

add_birthday_body(argv, contacts) ==
    IF Len(argv) < 2
    THEN Fail(contacts, "ValueError", <<"Please provide both name and birthday.">>)
    ELSE IF Len(argv) > 2
    THEN Fail(contacts, "ValueError", TooManyValues(2))
    ELSE LET name == argv[1]
             birthday == argv[2]
             record == find(contacts, name)
         IN  IF record = None
             THEN Fail(contacts, "ValueError", <<"Contact not found.">>)
             ELSE IF Record_add_birthday(record, birthday).exc # "none"
             THEN Fail(contacts, Record_add_birthday(record, birthday).exc,
                       Record_add_birthday(record, birthday).msg)
             ELSE Done(InPlace(contacts, name, Record_add_birthday(record, birthday).value),
                       <<"Birthday for ">> \o name \o <<" added.">>)

add_birthday(argv, contacts) == input_error(add_birthday_body(argv, contacts))

show_birthday_body(argv, contacts) ==
    IF Len(argv) < 1
    THEN Fail(contacts, "ValueError", <<"Please provide a name.">>)
    ELSE LET name == argv[1]
             record == find(contacts, name)
         IN  IF record = None
             THEN Fail(contacts, "ValueError", <<"Contact not found.">>)
             ELSE IF get_birthday(record) # None
             THEN Done(contacts, name \o <<"'s birthday is on ">> \o strftime(get_birthday(record)))
             ELSE Done(contacts, name \o <<" has no birthday recorded.">>)

show_birthday(argv, contacts) == input_error(show_birthday_body(argv, contacts))

birthdays_body(argv, contacts, now) ==
    IF get_upcoming_birthdays(contacts, now) = <<>>
    THEN Done(contacts, <<"No upcoming birthdays.">>)
    ELSE Done(contacts, <<"Upcoming birthdays: ">>
                        \o Join(get_upcoming_birthdays(contacts, now), <<", ">>))

birthdays(argv, contacts, now) == input_error(birthdays_body(argv, contacts, now))

add_contact_body(argv, contacts) ==
    IF Len(argv) < 2
    THEN Fail(contacts, "ValueError", <<"Please provide both name and phone number.">>)
    ELSE LET name == argv[1]
             phone == argv[2]
             isNew == find(contacts, name) = None
         IN  IF isNew /\ Record(name).exc # "none"
             THEN Fail(contacts, Record(name).exc, Record(name).msg)
             ELSE LET record == IF isNew THEN Record(name).value ELSE find(contacts, name)
                      book1 == IF isNew THEN add_record(contacts, record) ELSE contacts
                      message == IF isNew THEN <<"Contact added.">> ELSE <<"Contact updated.">>
                  IN  IF phone = <<>>
                      THEN Done(book1, message)
                      ELSE IF add_phone(record, phone).exc # "none"
                      THEN Fail(book1, add_phone(record, phone).exc, add_phone(record, phone).msg)
                      ELSE Done(InPlace(book1, name, add_phone(record, phone).value), message)

add_contact(argv, contacts) == input_error(add_contact_body(argv, contacts))

\* the last entry equal to old_phone instead of the first
FirstMatch_last(phones, old_phone) ==
    IF \E i \in 1..Len(phones) : phones[i] = old_phone
    THEN CHOOSE i \in 1..Len(phones) :
            /\ phones[i] = old_phone
            /\ \A j \in (i + 1)..Len(phones) : phones[j] # old_phone
    ELSE 0

\* the first entry of all when none equals old_phone
FirstMatch_any(phones, old_phone) ==
    IF \E i \in 1..Len(phones) : phones[i] = old_phone
    THEN CHOOSE i \in 1..Len(phones) :
            /\ phones[i] = old_phone
            /\ \A j \in 1..(i - 1) : phones[j] # old_phone
    ELSE IF phones # <<>> THEN 1 ELSE 0

\* the index of the first entry of phones equal to old_phone, 0 when none is
FirstMatch(phones, old_phone) ==
    IF \E i \in 1..Len(phones) : phones[i] = old_phone
    THEN CHOOSE i \in 1..Len(phones) :
            /\ phones[i] = old_phone
            /\ \A j \in 1..(i - 1) : phones[j] # old_phone
    ELSE 0

change_contact_body(argv, contacts) ==
    IF Len(argv) < 3
    THEN Fail(contacts, "ValueError",
              <<"Please provide name, old phone number, and new phone number.">>)
    ELSE IF Len(argv) > 3
    THEN Fail(contacts, "ValueError", TooManyValues(3))
    ELSE LET name == argv[1]
             old_phone == argv[2]
             new_phone == argv[3]
             record == find(contacts, name)
         IN  IF record = None
             THEN Fail(contacts, "ValueError", <<"Contact not found.">>)
             ELSE IF FirstMatch(record.phones, old_phone) # 0
             THEN Done(InPlace(contacts, name,
                          [record EXCEPT !.phones[FirstMatch(record.phones, old_phone)] = new_phone]),
                       <<"Updated ">> \o name \o <<"'s phone from ">> \o old_phone
                          \o <<" to ">> \o new_phone \o <<".">>)
             ELSE Fail(contacts, "ValueError",
                       <<"Phone ">> \o old_phone \o <<" not found for ">> \o name \o <<".">>)

change_contact(argv, contacts) == input_error(change_contact_body(argv, contacts))

show_phone_body(argv, contacts) ==
    IF Len(argv) < 1
    THEN Fail(contacts, "ValueError", <<"Please provide a name.">>)
    ELSE LET name == argv[1]
             record == find(contacts, name)
         IN  IF record = None
             THEN Fail(contacts, "ValueError", <<"Contact not found.">>)
             ELSE Done(contacts, name \o <<"'s phone numbers: ">> \o Join(record.phones, <<", ">>))

show_phone(argv, contacts) == input_error(show_phone_body(argv, contacts))

ContactLine(entry) == entry.key \o <<": ">> \o Join(entry.record.phones, <<", ">>)

show_all_contacts_body(contacts) ==
    IF contacts = <<>>
    THEN Done(contacts, <<"No contacts in the address book.">>)
    ELSE Done(contacts, Join([i \in 1..Len(contacts) |-> ContactLine(contacts[i])], <<"\n">>))

show_all_contacts(contacts) == input_error(show_all_contacts_body(contacts))

RECURSIVE SplitLoop(_, _, _, _)
\* str.split(): the maximal runs of non-whitespace characters
SplitLoop(s, i, cur, acc) ==
    IF i > Len(s)
    THEN (IF cur = <<>> THEN acc ELSE Append(acc, cur))
    ELSE IF s[i] \in Whitespace
    THEN SplitLoop(s, i + 1, <<>>, IF cur = <<>> THEN acc ELSE Append(acc, cur))
    ELSE SplitLoop(s, i + 1, Append(cur, s[i]), acc)

parse_input(line) == SplitLoop(line, 1, <<>>, <<>>)

\* ---------------------------------------------------------------- inputs
Alice == <<"Alice">>

Bob == <<"Bob">>

Carol == <<"Carol">>

P1 == PhonePrefix \o <<"5", "0", "1", "2", "3", "4", "5", "6", "7">>

P2 == PhonePrefix \o <<"6", "6", "1", "1", "1", "2", "2", "3", "3">>

BadPhone == <<"1", "2", "3">>

D1 == <<"1", "5", ".", "0", "6", ".", "1", "9", "9", "0">>

D2 == <<"1", ".", "1", ".", "2", "0", "0", "0">>

D3 == <<"3", "1", ".", "0", "4", ".", "2", "0", "0", "0">>

\* the longest phone list a contact is grown to
MaxPhones == 3

AddArgs ==
    {<<>>, <<Alice, P1>>, <<Alice, P2>>, <<Alice, BadPhone>>, <<Bob, BadPhone>>,
     <<Alice, P1, P2>>}

ChangeArgs ==
    {<<Alice, P1>>, <<Alice, P1, BadPhone>>, <<Alice, P2, P1>>, <<Bob, P1, P2>>,
     <<Alice, P1, P2, P1>>}

PhoneArgs == {<<>>, <<Alice>>, <<Bob>>}

AddBirthdayArgs == {<<Alice>>, <<Alice, D1>>, <<Alice, D3>>, <<Carol, D1>>, <<Alice, D1, D2>>}

ShowBirthdayArgs == {<<>>, <<Alice>>}

Commands ==
    {<<<<"hello">>>>, <<<<"close">>>>, <<<<"exit">>>>, <<<<"all">>>>, <<<<"birthdays">>>>,
     <<<<"remove">>, Alice>>}
    \cup { <<<<"add">>>> \o a : a \in AddArgs }
    \cup { <<<<"change">>>> \o a : a \in ChangeArgs }
    \cup { <<<<"phone">>>> \o a : a \in PhoneArgs }
    \cup { <<<<"add-birthday">>>> \o a : a \in AddBirthdayArgs }
    \cup { <<<<"show-birthday">>>> \o a : a \in ShowBirthdayArgs }

PaddedCommands == {<<<<"add">>, Alice, P2>>}

\* the lines typed at the prompt
Lines ==
    { Join(c, <<" ">>) : c \in Commands }
    \cup { <<" ", "\t">> \o Join(c, <<" ", " ">>) \o <<" ">> : c \in PaddedCommands }
    \cup {<<>>, <<" ", "\t">>}

\* the values of datetime.now() at a query
Todays == {Date(2024, 6, 10), Date(2024, 3, 1)}

\* ---------------------------------------------------------------- main
\* each line with the words parse_input makes of it
Parsed == { [line |-> l, words |-> parse_input(l)] : l \in Lines }

\* the model grows no phone list beyond MaxPhones
WithinBounds(argv) ==
    IF Len(argv) < 2 THEN TRUE
    ELSE IF find(book, argv[1]) = None THEN TRUE
    ELSE Len(find(book, argv[1]).phones) < MaxPhones

\* one pass of the while loop: print(handler(args, book))
Loop(p, res) ==
    /\ user_input' = p.line
    /\ command' = Head(p.words)
    /\ args' = Tail(p.words)
    /\ book' = res.contacts
    /\ printed' = res.value
    /\ pc' = "prompt"
    /\ UNCHANGED <<upcoming, text, made, lastAdded, found, file>>

\* command, *args = parse_input(user_input) raises ValueError on no words
MainUnpackError ==
    /\ pc = "prompt"
    /\ \E p \in Parsed :
        /\ p.words = <<>>
        /\ user_input' = p.line
        /\ pc' = "crashed"
        /\ UNCHANGED <<book, command, args, printed, today, upcoming, text, made, lastAdded, found, file>>

MainExit ==
    /\ pc = "prompt"
    /\ \E p \in Parsed :
        /\ p.words # <<>>
        /\ Head(p.words) \in {<<"close">>, <<"exit">>}
        /\ user_input' = p.line
        /\ command' = Head(p.words)
        /\ args' = Tail(p.words)
        /\ printed' = <<"Good bye!">>
        /\ file' = book
        /\ pc' = "done"
        /\ UNCHANGED <<book, today, upcoming, text, made, lastAdded, found>>

MainHello ==
    /\ pc = "prompt"
    /\ \E p \in Parsed :
        /\ p.words # <<>>
        /\ Head(p.words) = <<"hello">>
        /\ Loop(p, Done(book, <<"How can I help you?">>))
        /\ UNCHANGED today

MainAdd ==
    /\ pc = "prompt"
    /\ \E p \in Parsed :
        /\ p.words # <<>>
        /\ Head(p.words) = <<"add">>
        /\ WithinBounds(Tail(p.words))
        /\ Loop(p, add_contact(Tail(p.words), book))
        /\ UNCHANGED today

MainChange ==
    /\ pc = "prompt"
    /\ \E p \in Parsed :
        /\ p.words # <<>>
        /\ Head(p.words) = <<"change">>
        /\ Loop(p, change_contact(Tail(p.words), book))
        /\ UNCHANGED today

MainPhone ==
    /\ pc = "prompt"
    /\ \E p \in Parsed :
        /\ p.words # <<>>
        /\ Head(p.words) = <<"phone">>
        /\ Loop(p, show_phone(Tail(p.words), book))
        /\ UNCHANGED today

MainAll ==
    /\ pc = "prompt"
    /\ \E p \in Parsed :
        /\ p.words # <<>>
        /\ Head(p.words) = <<"all">>
        /\ Loop(p, show_all_contacts(book))
        /\ UNCHANGED today

MainAddBirthday ==
    /\ pc = "prompt"
    /\ \E p \in Parsed :
        /\ p.words # <<>>
        /\ Head(p.words) = <<"add-birthday">>
        /\ Loop(p, add_birthday(Tail(p.words), book))
        /\ UNCHANGED today

MainShowBirthday ==
    /\ pc = "prompt"
    /\ \E p \in Parsed :
        /\ p.words # <<>>
        /\ Head(p.words) = <<"show-birthday">>
        /\ Loop(p, show_birthday(Tail(p.words), book))
        /\ UNCHANGED today

MainBirthdays ==
    /\ pc = "prompt"
    /\ \E p \in Parsed, now \in Todays :
        /\ p.words # <<>>
        /\ Head(p.words) = <<"birthdays">>
        /\ Loop(p, birthdays(Tail(p.words), book, now))
        /\ UNCHANGED today

Verbs ==
    {<<"close">>, <<"exit">>, <<"hello">>, <<"add">>, <<"change">>, <<"phone">>,
     <<"all">>, <<"add-birthday">>, <<"show-birthday">>, <<"birthdays">>}

MainInvalid ==
    /\ pc = "prompt"
    /\ \E p \in Parsed :
        /\ p.words # <<>>
        /\ Head(p.words) \notin Verbs
        /\ Loop(p, Done(book, <<"Invalid command.">>))
        /\ UNCHANGED today

\* load_data finds no file; main prints the welcome and prompts
Init ==
    /\ book = AddressBook
    /\ pc = "prompt"
    /\ user_input = <<>>
    /\ command = <<>>
    /\ args = <<>>
    /\ printed = <<"Welcome to the assistant bot!">>
    /\ today = None
    /\ upcoming = <<>>
    /\ text = <<>>
    /\ made = None
    /\ lastAdded = <<>>
    /\ found = None
    /\ file = None

Next ==
    \/ MainUnpackError
    \/ MainExit
    \/ MainHello
    \/ MainAdd
    \/ MainChange
    \/ MainPhone
    \/ MainAll
    \/ MainAddBirthday
    \/ MainShowBirthday
    \/ MainBirthdays
    \/ MainInvalid

Spec == Init /\ [][Next]_vars

\* ---------------------------------------------------------------- Phone(t)
PhoneAlphabet == {"+", "0", "3", "8", "9", "a", " ", "\n"}

Replaced(s, i, c) == [s EXCEPT ![i] = c]

Inserted(s, i, c) == SubSeq(s, 1, i - 1) \o <<c>> \o SubSeq(s, i, Len(s))

Deleted(s, i) == SubSeq(s, 1, i - 1) \o SubSeq(s, i + 1, Len(s))

\* texts at most one edit away from a well-formed phone
PhoneTexts ==
    {P1, P2, BadPhone, <<>>}
    \cup { Replaced(P1, i, c) : i \in 1..Len(P1), c \in PhoneAlphabet }
    \cup { Inserted(P1, i, c) : i \in 1..(Len(P1) + 1), c \in PhoneAlphabet }
    \cup { Deleted(P1, i) : i \in 1..Len(P1) }

InitPhone ==
    /\ text \in PhoneTexts
    /\ made = None
    /\ pc = "call"
    /\ book = AddressBook
    /\ user_input = <<>>
    /\ command = <<>>
    /\ args = <<>>
    /\ printed = <<>>
    /\ today = None
    /\ upcoming = <<>>
    /\ lastAdded = <<>>
    /\ found = None
    /\ file = None

ConstructPhone ==
    /\ pc = "call"
    /\ made' = Phone(text)
    /\ pc' = "returned"
    /\ UNCHANGED <<book, user_input, command, args, printed, today, upcoming, text, lastAdded, found, file>>

SpecPhone == InitPhone /\ [][ConstructPhone]_vars

\* ---------------------------------------------------------------- Birthday(t)
DayTexts ==
    {<<"0", "1">>, <<"1">>, <<"1", "5">>, <<"2", "9">>, <<"3", "0">>, <<"3", "1">>,
     <<"3", "2">>, <<"0", "0">>, <<"0">>, <<" ", "1">>, <<"1", "a">>, <<>>}

MonthTexts ==
    {<<"0", "1">>, <<"1">>, <<"0", "2">>, <<"2">>, <<"0", "4">>, <<"1", "2">>,
     <<"1", "3">>, <<"0", "0">>, <<"0">>}

YearTexts ==
    {<<"2", "0", "2", "3">>, <<"2", "0", "2", "4">>, <<"1", "9", "0", "0">>,
     <<"2", "0", "0", "0">>, <<"0", "0", "0", "0">>, <<"9", "9">>,
     <<"2", "0", "2", "4", "0">>}

BirthdayTexts ==
    { d \o sep \o m \o <<".">> \o y \o tail :
        d \in DayTexts, sep \in {<<".">>, <<"-">>}, m \in MonthTexts,
        y \in YearTexts, tail \in {<<>>, <<"\n">>} }

InitBirthday ==
    /\ text \in BirthdayTexts
    /\ made = None
    /\ pc = "call"
    /\ book = AddressBook
    /\ user_input = <<>>
    /\ command = <<>>
    /\ args = <<>>
    /\ printed = <<>>
    /\ today = None
    /\ upcoming = <<>>
    /\ lastAdded = <<>>
    /\ found = None
    /\ file = None

ConstructBirthday ==
    /\ pc = "call"
    /\ made' = Birthday(text)
    /\ pc' = "returned"
    /\ UNCHANGED <<book, user_input, command, args, printed, today, upcoming, text, lastAdded, found, file>>

SpecBirthday == InitBirthday /\ [][ConstructBirthday]_vars

\* ---------------------------------------------------------------- the query
QueryYears == {2023, 2024}

\* every day of the years of QueryYears
QueryDays ==
    { dt \in { Date(y, m, d) : y \in QueryYears, m \in 1..12, d \in 1..31 } :
        dt.day <= DaysInMonth(dt.year, dt.month) }

\* every day of a leap year, as a birthday
AllBirthdays == { dt \in { Date(1992, m, d) : m \in 1..12, d \in 1..31 } :
                    dt.day <= DaysInMonth(dt.year, dt.month) }

SomeBirthdays == {None, Date(1992, 1, 3), Date(1992, 2, 29), Date(1990, 6, 15), Date(1990, 12, 31)}

Entry(name, birthday) ==
    [key |-> name, record |-> [name |-> name, phones |-> <<P1>>, birthday |-> birthday]]

QueryBooks ==
    {AddressBook}
    \cup { <<Entry(Alice, b)>> : b \in AllBirthdays }
    \cup { <<Entry(Alice, a), Entry(Bob, b)>> : a \in SomeBirthdays, b \in SomeBirthdays }
    \cup { <<Entry(Bob, a), Entry(Alice, b), Entry(Carol, a)>> : a \in SomeBirthdays, b \in SomeBirthdays }

InitUpcoming ==
    /\ today \in QueryDays
    /\ book \in QueryBooks
    /\ upcoming = <<>>
    /\ pc = "call"
    /\ user_input = <<>>
    /\ command = <<>>
    /\ args = <<>>
    /\ printed = <<>>
    /\ text = <<>>
    /\ made = None
    /\ lastAdded = <<>>
    /\ found = None
    /\ file = None

Query ==
    /\ pc = "call"
    /\ upcoming' = get_upcoming_birthdays(book, today)
    /\ pc' = "returned"
    /\ UNCHANGED <<book, user_input, command, args, printed, today, text, made, lastAdded, found, file>>

SpecUpcoming == InitUpcoming /\ [][Query]_vars

\* ---------------------------------------------------------------- the book
BookNames == {Alice, Bob, Carol}

BookRecords ==
    { [name |-> n, phones |-> ph, birthday |-> b] :
        n \in BookNames, ph \in {<<>>, <<P1>>}, b \in {None, Date(1990, 6, 15)} }

InitBook ==
    /\ book = AddressBook
    /\ lastAdded = [n \in BookNames |-> None]
    /\ found = None
    /\ pc = "api"
    /\ user_input = <<>>
    /\ command = <<>>
    /\ args = <<>>
    /\ printed = <<>>
    /\ today = None
    /\ upcoming = <<>>
    /\ text = <<>>
    /\ made = None
    /\ file = None

CallAddRecord ==
    /\ pc = "api"
    /\ \E record \in BookRecords :
        /\ book' = add_record(book, record)
        /\ lastAdded' = [lastAdded EXCEPT ![record.name] = record]
    /\ UNCHANGED <<pc, user_input, command, args, printed, today, upcoming, text, made, found, file>>

CallFind ==
    /\ pc = "api"
    /\ \E name \in BookNames :
        found' = [name |-> name, value |-> find(book, name)]
    /\ UNCHANGED <<book, pc, user_input, command, args, printed, today, upcoming, text, made, lastAdded, file>>

NextBook == CallAddRecord \/ CallFind

SpecBook == InitBook /\ [][NextBook]_vars

\* ---------------------------------------------------------------- claims
Range(seq) == { seq[i] : i \in 1..Len(seq) }

\* t is '+380' followed by 9 decimal digits and nothing else
ExactPhone(t) ==
    /\ Len(t) = 13
    /\ <<t[1], t[2], t[3], t[4]>> = <<"+", "3", "8", "0">>
    /\ \A i \in 5..13 : t[i] \in {"0", "1", "2", "3", "4", "5", "6", "7", "8", "9"}

\* C1: Phone(t) succeeds if and only if t is exactly '+380' and 9 digits; any
\* other text, one with a trailing newline included, is rejected with the
\* invalid-phone error and yields no Phone value.
C1_PhoneIffExact ==
    pc = "returned" =>
        /\ (made.exc = "none") <=> ExactPhone(text)
        /\ made.exc = "none" => made.value = text
        /\ made.exc # "none" => made.exc = "ValueError" /\ made.msg = InvalidPhoneMsg

\* the entries the two-clause rule selects
Selected(contacts, now) ==
    LET next_week == AddDays(now, 7) IN
    { i \in 1..Len(contacts) :
        IF contacts[i].record.birthday = None THEN FALSE
        ELSE LET b == contacts[i].record.birthday IN
             \/ b.month = now.month /\ b.day >= now.day
             \/ b.month = next_week.month /\ b.day <= next_week.day }

\* C2: get_upcoming_birthdays returns exactly the names of the records whose
\* birthday b has (b.month = today.month and b.day >= today.day) or
\* (b.month = next_week.month and b.day <= next_week.day), each once and in
\* insertion order; records without a birthday never appear and an empty book
\* gives an empty list.
C2_UpcomingExact ==
    pc = "returned" =>
        /\ Range(upcoming) = { book[i].key : i \in Selected(book, today) }
        /\ Len(upcoming) = Cardinality(Selected(book, today))
        /\ \A i, j \in 1..Len(upcoming) :
              i < j => IndexOf(book, upcoming[i]) < IndexOf(book, upcoming[j])
        /\ \A i \in 1..Len(book) :
              book[i].record.birthday = None => book[i].key \notin Range(upcoming)
        /\ book = <<>> => upcoming = <<>>

C2_Witness ==
    /\ pc = "returned"
    /\ Len(book) = 3
    /\ today = Date(2024, 12, 28)
    /\ upcoming = <<Bob, Carol>>

\* C3: no input line crashes the process: every line is answered with a
\* status string and the loop goes on to the next prompt; the loop ends only
\* on the verbs 'close' and 'exit'.
C3_NeverCrashes ==
    /\ pc \in {"prompt", "done"}
    /\ pc = "done" => command \in {<<"close">>, <<"exit">>}

Phones(contacts, name) ==
    IF find(contacts, name) = None THEN <<>> ELSE find(contacts, name).phones

\* a step that runs 'change name old new' for a contact of the book
ChangeStep ==
    /\ pc = "prompt" /\ pc' = "prompt"
    /\ command' = <<"change">>
    /\ Len(args') = 3
    /\ find(book, args'[1]) # None

\* C4: a 'change' for an existing contact whose old phone text equals no entry
\* of the contact's phone sequence fails with the phone-not-found error and
\* leaves that sequence and the rest of the book unchanged.
C4_ChangeMissingPhone ==
    [][ (ChangeStep /\ args'[2] \notin Range(Phones(book, args'[1])))
        => /\ printed' = <<"Phone ">> \o args'[2] \o <<" not found for ">>
                          \o args'[1] \o <<".">>
           /\ book' = book ]_vars

C4_Witness ==
    /\ pc = "prompt"
    /\ command = <<"change">>
    /\ args = <<Alice, P2, P1>>
    /\ printed = <<"Phone ">> \o P2 \o <<" not found for ">> \o Alice \o <<".">>
    /\ Phones(book, Alice) = <<BadPhone, P1>>

C5_BookInv ==
    /\ \A i, j \in 1..Len(book) : book[i].key = book[j].key => i = j
    /\ \A n \in BookNames : find(book, n) = lastAdded[n]
    /\ \A n \in BookNames : lastAdded[n] = None => n \notin Keys(book)

\* C5: the book holds at most one record per name; find(n) returns the record
\* last passed to add_record under n, or the absent value when none was; find
\* never changes the book.
C5_AddRecordFind ==
    /\ []C5_BookInv
    /\ [][ found' # found =>
             (book' = book /\ found'.value = lastAdded[found'.name]) ]_vars

C5_Witness ==
    /\ Len(book) = 2
    /\ book[1].key = Alice
    /\ book[1].record = [name |-> Alice, phones |-> <<P1>>, birthday |-> None]
    /\ lastAdded[Alice] = book[1].record
    /\ found # None
    /\ found.name = Alice
    /\ found.value = [name |-> Alice, phones |-> <<>>, birthday |-> None]

\* t is DD.MM.YYYY: 2 digits, a dot, 2 digits, a dot, 4 digits
StrictDateText(t) ==
    /\ Len(t) = 10
    /\ t[3] = "." /\ t[6] = "."
    /\ \A i \in {1, 2, 4, 5, 7, 8, 9, 10} :
          t[i] \in {"0", "1", "2", "3", "4", "5", "6", "7", "8", "9"}

Num(t, i, j) == ToInt(SubSeq(t, i, j))

\* the date written in t is a day of the calendar
CalendarDate(t) ==
    /\ Num(t, 7, 10) >= 1
    /\ Num(t, 4, 5) \in 1..12
    /\ Num(t, 1, 2) >= 1
    /\ Num(t, 1, 2) <= DaysInMonth(Num(t, 7, 10), Num(t, 4, 5))

\* C6: Birthday(text) fails with the invalid-date error whenever text is not
\* DD.MM.YYYY with a 2-digit day, a 2-digit month and a 4-digit year, or is an
\* impossible calendar date; it succeeds for every other text and stores the
\* day, month and year written in the text.
C6_BirthdayStrict ==
    pc = "returned" =>
        /\ (made.exc = "none") <=> (StrictDateText(text) /\ CalendarDate(text))
        /\ made.exc = "none" =>
              made.value = Date(Num(text, 7, 10), Num(text, 4, 5), Num(text, 1, 2))
        /\ made.exc # "none" => made.exc = "ValueError" /\ made.msg = InvalidDateMsg

\* a step that runs 'add name phone ...' and prints a success status
AddOkStep ==
    /\ pc = "prompt" /\ pc' = "prompt"
    /\ command' = <<"add">>
    /\ Len(args') >= 2
    /\ printed' \in {<<"Contact added.">>, <<"Contact updated.">>}

\* a step that runs 'phone name' for a contact of the book
PhoneStep ==
    /\ pc = "prompt" /\ pc' = "prompt"
    /\ command' = <<"phone">>
    /\ Len(args') >= 1
    /\ find(book, args'[1]) # None

\* name's entry keeps its place, name and birthday, and every other entry of
\* the book is the same in both books
SameButPhones(old, new, name) ==
    /\ Len(new) = Len(old)
    /\ \A i \in 1..Len(old) :
          /\ new[i].key = old[i].key
          /\ new[i].record.name = old[i].record.name
          /\ new[i].record.birthday = old[i].record.birthday
          /\ old[i].key # name => new[i] = old[i]

RECURSIVE Listed(_)
\* the phones as a listing reads: first to last, a comma and a blank between
Listed(phones) ==
    IF phones = <<>> THEN <<>>
    ELSE IF Len(phones) = 1 THEN phones[1]
    ELSE Listed(SubSeq(phones, 1, Len(phones) - 1)) \o <<", ">> \o phones[Len(phones)]

\* C7: every successful 'add' appends its phone to the end of the contact's
\* phone sequence, duplicates kept: the first creates the contact with that one
\* phone, a later one keeps the record and its earlier phones; 'phone' lists
\* the entries in that order.
C7_AddAppends ==
    [][ /\ AddOkStep =>
            /\ Phones(book', args'[1]) = Phones(book, args'[1]) \o <<args'[2]>>
            /\ (printed' = <<"Contact added.">>) <=> (find(book, args'[1]) = None)
            /\ find(book, args'[1]) = None =>
                  book' = book \o <<[key |-> args'[1],
                                     record |-> [name |-> args'[1],
                                                 phones |-> <<args'[2]>>,
                                                 birthday |-> None]]>>
            /\ find(book, args'[1]) # None => SameButPhones(book, book', args'[1])
        /\ PhoneStep =>
            /\ book' = book
            /\ printed' = args'[1] \o <<"'s phone numbers: ">>
                             \o Listed(Phones(book, args'[1])) ]_vars

C7_Witness ==
    /\ pc = "prompt"
    /\ command = <<"phone">>
    /\ args = <<Alice>>
    /\ Phones(book, Alice) = <<P2, P1, P2>>
    /\ printed = Alice \o <<"'s phone numbers: ">> \o P2 \o <<", ">> \o P1 \o <<", ">> \o P2

\* the least index of an entry of phones equal to p
Least(phones, p) ==
    CHOOSE k \in 1..Len(phones) :
        phones[k] = p /\ \A j \in 1..Len(phones) : phones[j] = p => k <= j

\* C8: a 'change' whose old phone text occurs in the contact's phone sequence
\* replaces the first entry equal to it with the new text, whatever the new
\* text's format; every other entry keeps its value and position and the
\* length of the sequence is unchanged.
C8_ChangeFirst ==
    [][ (ChangeStep /\ args'[2] \in Range(Phones(book, args'[1]))) =>
          LET old == Phones(book, args'[1])
              new == Phones(book', args'[1])
              k == Least(old, args'[2])
          IN  /\ Len(new) = Len(old)
              /\ new[k] = args'[3]
              /\ \A j \in 1..Len(old) : j # k => new[j] = old[j]
              /\ SameButPhones(book, book', args'[1]) ]_vars

C8_Witness ==
    /\ pc = "prompt"
    /\ command = <<"change">>
    /\ args = <<Alice, P1, BadPhone>>
    /\ Phones(book, Alice) = <<P2, BadPhone, P1>>
    /\ ~validate_phone(BadPhone)
    /\ printed = <<"Updated ">> \o Alice \o <<"'s phone from ">> \o P1
                    \o <<" to ">> \o BadPhone \o <<".">>

\* a step that runs 'add' and prints an error status
AddErrorStep ==
    /\ pc = "prompt" /\ pc' = "prompt"
    /\ command' = <<"add">>
    /\ printed' \notin {<<"Contact added.">>, <<"Contact updated.">>}

\* C9: an 'add' that returns an error status leaves the book unchanged, so no
\* contact is created by a rejected phone and every contact of the book has at
\* least one phone.
C9_AddErrorKeepsBook ==
    /\ [](\A i \in 1..Len(book) : Len(book[i].record.phones) >= 1)
    /\ [][ AddErrorStep => book' = book ]_vars

\* C10: a contact whose birthday's month and day are those of one of the dates
\* today, today+1, ..., today+7 is in the list get_upcoming_birthdays returns.
C10_NeverMisses ==
    pc = "returned" =>
        \A i \in 1..Len(book) :
            IF book[i].record.birthday = None THEN TRUE
            ELSE (\E k \in 0..7 :
                     /\ AddDays(today, k).month = book[i].record.birthday.month
                     /\ AddDays(today, k).day = book[i].record.birthday.day)
                 => book[i].key \in Range(upcoming)

C10_Witness ==
    /\ pc = "returned"
    /\ today = Date(2024, 12, 28)
    /\ book = <<Entry(Alice, Date(1992, 1, 4))>>
    /\ upcoming = <<Alice>>

====
